---- MODULE Spec2Model ----
(***************************************************************************)
(* Environment configuration builders of the Contact Suite CLI             *)
(* (scripts/runtime_env.py): DevEnvironment, ProdLocalEnvironment and      *)
(* CILocalEnvironment assemble the environment mapping handed to the       *)
(* launched application.  Strings are TLA+ strings, a dict is a function   *)
(* whose DOMAIN is its key set, Optional[str] is a record (None / Some).   *)
(***************************************************************************)
EXTENDS Integers, Sequences, FiniteSets, TLC

(* ---------------------------------------------------------------- bounds *)

\* Largest number of entries EnvironmentConfig.extra_vars holds in the model.
MaxExtras == 1

(* ------------------------------------------------------------- constants *)

DEV_DEFAULT_JWT_SECRET == "devsecretkey123456789012345678901234567890"

\* The literal 32 of `len(jwt_secret) < 32`.
MinSecretLen == 32

\* DatabaseType enum values.
H2 == "h2"
POSTGRES == "postgres"

\* SpringProfile enum values.
DEFAULT == "default"
DEV == "dev"
PROD == "prod"

\* The three concrete builder classes.
DevEnvironment == "DevEnvironment"
ProdLocalEnvironment == "ProdLocalEnvironment"
CILocalEnvironment == "CILocalEnvironment"

DEFAULT_POSTGRES_URL == "jdbc:postgresql://localhost:5432/contactapp"
DEFAULT_POSTGRES_USERNAME == "contactapp"
DEFAULT_POSTGRES_PASSWORD == "contactapp"
POSTGRES_DRIVER == "org.postgresql.Driver"

\* The ValueError messages of ProdLocalEnvironment.validate (first line).
ERR_REQUIRED == "JWT_SECRET environment variable is required for prod-local mode."
ERR_DEV_DEFAULT == "JWT_SECRET cannot be the dev default in prod-local mode."
ERR_TOO_SHORT == "JWT_SECRET must be at least 32 characters"
NoError == "no error"

\* The advisory line CILocalEnvironment.validate prints to sys.stderr.
WARN_NVD == "[WARN] NVD_API_KEY not set. OWASP Dependency-Check will be slower."

DatasourceKeys ==
    {"SPRING_DATASOURCE_URL", "SPRING_DATASOURCE_USERNAME",
     "SPRING_DATASOURCE_PASSWORD", "SPRING_DATASOURCE_DRIVER_CLASS_NAME"}

(* ------------------------------------------------------- python helpers *)

\* Optional[str]: None, or a present string.
None == [isNone |-> TRUE, str |-> ""]
Some(s) == [isNone |-> FALSE, str |-> s]

\* Truthiness of an Optional[str]: None and "" are falsy.
Truthy(o) == (~o.isNone) /\ Len(o.str) > 0

\* str(bool)
Str(b) == IF b THEN "True" ELSE "False"

LowerChar(c) ==
  CASE c = "A" -> "a" []
       c = "B" -> "b" []
       c = "C" -> "c" []
       c = "D" -> "d" []
       c = "E" -> "e" []
       c = "F" -> "f" []
       c = "G" -> "g" []
       c = "H" -> "h" []
       c = "I" -> "i" []
       c = "J" -> "j" []
       c = "K" -> "k" []
       c = "L" -> "l" []
       c = "M" -> "m" []
       c = "N" -> "n" []
       c = "O" -> "o" []
       c = "P" -> "p" []
       c = "Q" -> "q" []
       c = "R" -> "r" []
       c = "S" -> "s" []
       c = "T" -> "t" []
       c = "U" -> "u" []
       c = "V" -> "v" []
       c = "W" -> "w" []
       c = "X" -> "x" []
       c = "Y" -> "y" []
       c = "Z" -> "z" []
       OTHER -> c

\* str.lower()
RECURSIVE Lower(_)
Lower(s) ==
    IF Len(s) = 0 THEN ""
    ELSE LowerChar(SubSeq(s, 1, 1)) \o Lower(SubSeq(s, 2, Len(s)))

\* dict.get(key) -> Optional[str]
Get(d, k) == IF k \in DOMAIN d THEN Some(d[k]) ELSE None

\* d[key] = value
SetItem(d, k, v) == (k :> v) @@ d

\* d.setdefault(key, value)
SetDefault(d, k, v) == IF k \in DOMAIN d THEN d ELSE (k :> v) @@ d

\* d.update(other)
Update(d, other) == other @@ d

\* del d[key] / d.pop(key, None)
DelItem(d, k) == [x \in (DOMAIN d) \ {k} |-> d[x]]

EmptyDict == <<>>

(* ------------------------------------------------------ EnvironmentConfig *)

\* The dataclass defaults.
EnvironmentConfig ==
    [cookie_secure |-> FALSE,
     spring_profile |-> DEFAULT,
     csp_relaxed |-> FALSE,
     jwt_secret |-> None,
     require_ssl |-> FALSE,
     database |-> H2,
     postgres_url |-> DEFAULT_POSTGRES_URL,
     postgres_username |-> DEFAULT_POSTGRES_USERNAME,
     postgres_password |-> DEFAULT_POSTGRES_PASSWORD,
     extra_vars |-> EmptyDict]

\* A builder object: its class and its _config; cls = "none" before construction.
NoBuilder == [cls |-> "none", config |-> EnvironmentConfig]

(* ------------------------------------------------------------------ state *)

VARIABLES
    environ,       \* os.environ: the ambient process environment
    builders,      \* builder objects, by identity
    secretAtInit,         \* history: what os.environ.get("JWT_SECRET") gave when ProdLocalEnvironment() ran
    suppliedCredentials,  \* history: the arguments of the last with_postgres_credentials call
    httpsCalled,          \* history: whether with_https() was called on the builder
    ret,           \* outcome of build() while it is the most recent call: returned mapping / raised error / stderr lines
    helper,        \* the most recent call of a module-level helper of runtime_env.py: its argument and result
    cli,           \* the run of a cs_cli command: its options, position, the steps it ran, its exit code
    metrics        \* the run of ci_metrics_summary.main(): the reports on disk and how the call ended

vars == <<environ, builders, secretAtInit, suppliedCredentials, httpsCalled, ret, helper, cli, metrics>>

\* Builder objects that can be alive at once; Spec constructs the first only,
\* SpecTwo both.
BuilderIds == {"b1", "b2"}
SingleBuilder == {"b1"}

(* ----------------------------------------------------------------- inputs *)

RECURSIVE Repeat(_, _)
Repeat(c, n) == IF n = 0 THEN "" ELSE c \o Repeat(c, n - 1)

\* Variables of the ambient environment that build()/validate()/__init__ read or overlay.
EnvironKeys ==
    {"JWT_SECRET", "NVD_API_KEY", "CSP_RELAXED", "REQUIRE_SSL", "SPRING_PROFILES_ACTIVE"}
        \cup DatasourceKeys

\* Values the ambient environment may hold for a key.
EnvironValues(k) ==
    CASE k = "JWT_SECRET" ->
            {"", Repeat("a", MinSecretLen - 1), Repeat("a", MinSecretLen),
             DEV_DEFAULT_JWT_SECRET}
      [] k = "NVD_API_KEY" -> {"", "test-key"}
      [] k = "CSP_RELAXED" -> {"true"}
      [] k = "REQUIRE_SSL" -> {"1"}
      [] k = "SPRING_PROFILES_ACTIVE" -> {"staging"}
      [] k = "SPRING_DATASOURCE_URL" -> {"jdbc:h2:mem:ambient"}
      [] k = "SPRING_DATASOURCE_USERNAME" -> {"ambientuser"}
      [] k = "SPRING_DATASOURCE_PASSWORD" -> {"ambientpass"}
      [] k = "SPRING_DATASOURCE_DRIVER_CLASS_NAME" -> {"org.h2.Driver"}
      [] k = "APP_AUTH_COOKIE_SECURE" -> {"1"}
      [] k = "COOKIE_SECURE" -> {"0"}

RECURSIVE EnvironsOver(_)
EnvironsOver(K) ==
    IF K = {} THEN {EmptyDict}
    ELSE LET k == CHOOSE x \in K : TRUE
             rest == EnvironsOver(K \ {k})
         IN  rest \cup {SetItem(e, k, v) : e \in rest, v \in EnvironValues(k)}

\* Arguments of DevEnvironment(database=...).
DatabaseArgs == {"h2", "postgres", "Postgres", "mysql"}

\* Arguments of with_postgres_credentials.
UrlArgs == {DEFAULT_POSTGRES_URL, "jdbc:postgresql://custom:5432/mydb"}
UsernameArgs == {"myuser"}
PasswordArgs == {"mypass"}

\* Entries a caller may put into _config.extra_vars.
ExtraKeys == {"JWT_SECRET", "SPRING_DATASOURCE_URL", "REQUIRE_SSL"}
ExtraValues(k) ==
    CASE k = "JWT_SECRET" -> {"extrasecret"}
      [] k = "SPRING_DATASOURCE_URL" -> {"jdbc:postgresql://extra:5432/db"}
      [] k = "REQUIRE_SSL" -> {"extra"}

(* -------------------------------------------------------------- validate *)

\* Variant: Dev applies the production secret rules.
DevValidate_Strict(config) ==
    IF ~Truthy(config.jwt_secret) THEN ERR_REQUIRED ELSE NoError

\* DevEnvironment.validate: pass.
DevValidate(config) == NoError

\* Variant: the length check is missing.
ProdLocalValidate_NoLengthCheck(config) ==
    LET jwt_secret == config.jwt_secret
    IN  IF ~Truthy(jwt_secret) THEN ERR_REQUIRED
        ELSE IF jwt_secret.str = DEV_DEFAULT_JWT_SECRET THEN ERR_DEV_DEFAULT
        ELSE NoError

\* Variant: `if jwt_secret is None` instead of `if not jwt_secret`.
ProdLocalValidate_NoneOnly(config) ==
    LET jwt_secret == config.jwt_secret
    IN  IF jwt_secret.isNone THEN ERR_REQUIRED
        ELSE IF jwt_secret.str = DEV_DEFAULT_JWT_SECRET THEN ERR_DEV_DEFAULT
        ELSE IF Len(jwt_secret.str) < MinSecretLen THEN ERR_TOO_SHORT
        ELSE NoError

\* Variant: the comparison with DEV_DEFAULT_JWT_SECRET is missing.
ProdLocalValidate_NoDefaultCheck(config) ==
    LET jwt_secret == config.jwt_secret
    IN  IF ~Truthy(jwt_secret) THEN ERR_REQUIRED
        ELSE IF Len(jwt_secret.str) < MinSecretLen THEN ERR_TOO_SHORT
        ELSE NoError

\* Variant: `len(jwt_secret) <= 32`.
ProdLocalValidate_OffByOne(config) ==
    LET jwt_secret == config.jwt_secret
    IN  IF ~Truthy(jwt_secret) THEN ERR_REQUIRED
        ELSE IF jwt_secret.str = DEV_DEFAULT_JWT_SECRET THEN ERR_DEV_DEFAULT
        ELSE IF Len(jwt_secret.str) <= MinSecretLen THEN ERR_TOO_SHORT
        ELSE NoError

\* ProdLocalEnvironment.validate: the ValueError raised, or NoError.
ProdLocalValidate(config) ==
    LET jwt_secret == config.jwt_secret
    IN  IF ~Truthy(jwt_secret) THEN ERR_REQUIRED
        ELSE IF jwt_secret.str = DEV_DEFAULT_JWT_SECRET THEN ERR_DEV_DEFAULT
        ELSE IF Len(jwt_secret.str) < MinSecretLen THEN ERR_TOO_SHORT
        ELSE NoError

\* Variant: `os.environ.get("NVD_API_KEY") is None` instead of `not ...`.
CILocalValidate_NoneOnly(env) ==
    IF Get(env, "NVD_API_KEY").isNone THEN <<WARN_NVD>> ELSE <<>>

\* CILocalEnvironment.validate: the lines printed to sys.stderr; never raises.
CILocalValidate(env) ==
    IF ~Truthy(Get(env, "NVD_API_KEY")) THEN <<WARN_NVD>> ELSE <<>>

\* self.validate(), dispatched on the builder's class.
Validate(builder, env) ==
    CASE builder.cls = DevEnvironment ->
            [error |-> DevValidate(builder.config), stderr |-> <<>>]
      [] builder.cls = ProdLocalEnvironment ->
            [error |-> ProdLocalValidate(builder.config), stderr |-> <<>>]
      [] builder.cls = CILocalEnvironment ->
            [error |-> NoError, stderr |-> CILocalValidate(env)]

(* ----------------------------------------------------------------- build *)

\* Variant: str(bool) without .lower().
CookieSecurity_NoLower(env, config) ==
    SetItem(SetItem(env, "APP_AUTH_COOKIE_SECURE", Str(config.cookie_secure)),
            "COOKIE_SECURE", Str(config.cookie_secure))

\* Variant: the cookie flags only fill in what the ambient environment lacks.
CookieSecurity_SetDefault(env, config) ==
    SetDefault(SetDefault(env, "APP_AUTH_COOKIE_SECURE", Lower(Str(config.cookie_secure))),
               "COOKIE_SECURE", Lower(Str(config.cookie_secure)))

\* env["APP_AUTH_COOKIE_SECURE"] = ...; env["COOKIE_SECURE"] = ...
CookieSecurity(env, config) ==
    SetItem(SetItem(env, "APP_AUTH_COOKIE_SECURE", Lower(Str(config.cookie_secure))),
            "COOKIE_SECURE", Lower(Str(config.cookie_secure)))

\* env["SPRING_PROFILES_ACTIVE"] = self._config.spring_profile.value
ActiveProfile(env, config) == SetItem(env, "SPRING_PROFILES_ACTIVE", config.spring_profile)

\* if self._config.csp_relaxed: env["CSP_RELAXED"] = "true"
CspRelaxation(env, config) ==
    IF config.csp_relaxed THEN SetItem(env, "CSP_RELAXED", "true") ELSE env

\* Variant: the secret is written with setdefault, so an ambient JWT_SECRET
\* present at finalization survives.
JwtSecret_SetDefault(env, config) ==
    IF Truthy(config.jwt_secret) THEN SetDefault(env, "JWT_SECRET", config.jwt_secret.str) ELSE env

\* if self._config.jwt_secret: env["JWT_SECRET"] = self._config.jwt_secret
JwtSecret(env, config) ==
    IF Truthy(config.jwt_secret) THEN SetItem(env, "JWT_SECRET", config.jwt_secret.str) ELSE env

\* Variant: REQUIRE_SSL is written with setdefault, so an ambient value survives.
SslRequirement_SetDefault(env, config) ==
    SetDefault(env, "REQUIRE_SSL", Lower(Str(config.require_ssl)))

\* env["REQUIRE_SSL"] = str(self._config.require_ssl).lower()
SslRequirement(env, config) == SetItem(env, "REQUIRE_SSL", Lower(Str(config.require_ssl)))

\* Variant: the datasource variables are filled in whatever the backend is.
PostgresConfiguration_Always(env, config) ==
    SetDefault(
      SetDefault(
        SetDefault(
          SetDefault(env, "SPRING_DATASOURCE_URL", config.postgres_url),
          "SPRING_DATASOURCE_USERNAME", config.postgres_username),
        "SPRING_DATASOURCE_PASSWORD", config.postgres_password),
      "SPRING_DATASOURCE_DRIVER_CLASS_NAME", POSTGRES_DRIVER)

\* Variant: plain assignments instead of setdefault.
PostgresConfiguration_Assigns(env, config) ==
    IF config.database = POSTGRES
    THEN SetItem(
           SetItem(
             SetItem(
               SetItem(env, "SPRING_DATASOURCE_URL", config.postgres_url),
               "SPRING_DATASOURCE_USERNAME", config.postgres_username),
             "SPRING_DATASOURCE_PASSWORD", config.postgres_password),
           "SPRING_DATASOURCE_DRIVER_CLASS_NAME", POSTGRES_DRIVER)
    ELSE env

\* if database == POSTGRES: four env.setdefault calls
PostgresConfiguration(env, config) ==
    IF config.database = POSTGRES
    THEN SetDefault(
           SetDefault(
             SetDefault(
               SetDefault(env, "SPRING_DATASOURCE_URL", config.postgres_url),
               "SPRING_DATASOURCE_USERNAME", config.postgres_username),
             "SPRING_DATASOURCE_PASSWORD", config.postgres_password),
           "SPRING_DATASOURCE_DRIVER_CLASS_NAME", POSTGRES_DRIVER)
    ELSE env

\* Variant: extras only fill in keys the mapping does not hold yet.
ExtraVariables_FillOnly(env, config) == Update(config.extra_vars, env)

\* env.update(self._config.extra_vars)
ExtraVariables(env, config) == Update(env, config.extra_vars)

\* The overlay of build(): os.environ.copy() followed by the seven steps, in order.
Overlay(config, env) ==
    ExtraVariables(
      PostgresConfiguration(
        SslRequirement(
          JwtSecret(
            CspRelaxation(
              ActiveProfile(
                CookieSecurity(env, config),
                config),
              config),
            config),
          config),
        config),
      config)

\* The outcome of a call.
Outcome(op, b, kind, env, error, stderr) ==
    [op |-> op, builder |-> b, kind |-> kind, env |-> env, error |-> error, stderr |-> stderr]

NoCall == Outcome("none", "none", "none", EmptyDict, NoError, <<>>)

\* Variant: the result of validate() is not allowed to stop the overlay.
BuildOutcome_IgnoresError(b, builder, env) ==
    LET v == Validate(builder, env)
    IN  Outcome("build", b, "returned", Overlay(builder.config, env), v.error, v.stderr)

\* EnvironmentBuilder.build: validate first; a raised ValueError ends the call.
BuildOutcome(b, builder, env) ==
    LET v == Validate(builder, env)
    IN  IF v.error # NoError
        THEN Outcome("build", b, "raised", EmptyDict, v.error, v.stderr)
        ELSE Outcome("build", b, "returned", Overlay(builder.config, env), NoError, v.stderr)

(* ---------------------------------------------------------- constructors *)

\* Variant: the Postgres branch selects the backend but not the dev profile.
DevConfig_NoProfile(database) ==
    LET c == [EnvironmentConfig EXCEPT !.cookie_secure = FALSE,
                                       !.csp_relaxed = TRUE,
                                       !.require_ssl = FALSE]
    IN  IF Lower(database) = "postgres"
        THEN [c EXCEPT !.database = POSTGRES]
        ELSE [c EXCEPT !.database = H2, !.spring_profile = DEFAULT]

\* DevEnvironment.__init__(database)
DevConfig(database) ==
    LET c == [EnvironmentConfig EXCEPT !.cookie_secure = FALSE,
                                       !.csp_relaxed = TRUE,
                                       !.require_ssl = FALSE]
    IN  IF Lower(database) = "postgres"
        THEN [c EXCEPT !.database = POSTGRES, !.spring_profile = DEV]
        ELSE [c EXCEPT !.database = H2, !.spring_profile = DEFAULT]

\* ProdLocalEnvironment.__init__()
ProdLocalConfig(env) ==
    [EnvironmentConfig EXCEPT !.cookie_secure = TRUE,
                              !.csp_relaxed = FALSE,
                              !.require_ssl = FALSE,
                              !.database = POSTGRES,
                              !.spring_profile = PROD,
                              !.jwt_secret = Get(env, "JWT_SECRET")]

\* Variant: CI selects the Postgres backend.
CILocalConfig_Postgres ==
    [EnvironmentConfig EXCEPT !.cookie_secure = TRUE,
                              !.spring_profile = DEFAULT,
                              !.csp_relaxed = FALSE,
                              !.require_ssl = FALSE,
                              !.database = POSTGRES]

\* CILocalEnvironment.__init__()
CILocalConfig ==
    [EnvironmentConfig EXCEPT !.cookie_secure = TRUE,
                              !.spring_profile = DEFAULT,
                              !.csp_relaxed = FALSE,
                              !.require_ssl = FALSE]

(* ------------------------------------------------- what build() leaves behind *)

\* Variant: build() consumes the pending secret once it has emitted it.
BuilderAfterBuild_Consumes(builder) ==
    IF Validate(builder, EmptyDict).error = NoError
    THEN [builder EXCEPT !.config.jwt_secret = None]
    ELSE builder

\* The builder after build(): the method only reads self._config.
BuilderAfterBuild(builder) == builder

\* Variant: `env = os.environ` without .copy(), so the overlay lands in os.environ.
EnvironAfterBuild_NoCopy(builder, env) ==
    IF Validate(builder, env).error = NoError THEN Overlay(builder.config, env) ELSE env

\* os.environ after build(): every write of the method goes to os.environ.copy().
EnvironAfterBuild(builder, env) == env

\* Variant: the returned mapping is os.environ itself.
EnvironAfterResultWrite_Aliased(env, k, v) == SetItem(env, k, v)

\* os.environ after the caller writes result[k] = v: the result is a separate dict.
EnvironAfterResultWrite(env, k, v) == env

\* A write the caller makes to the mapping build() returned.
ResultWrites == {<<"REQUIRE_SSL", "changed">>}

(* --------------------------------------------------------------- mutators *)

\* Variant: extra_vars is one dict shared by every builder (a mutable default
\* instead of field(default_factory=dict)).
SetExtraVar_SharedDict(bs, b, k, v) ==
    [x \in DOMAIN bs |->
        IF bs[x].cls # "none"
        THEN [bs[x] EXCEPT !.config.extra_vars = SetItem(@, k, v)]
        ELSE bs[x]]

\* builders after b._config.extra_vars[k] = v: each config owns its own dict.
SetExtraVar(bs, b, k, v) == [bs EXCEPT ![b].config.extra_vars = SetItem(@, k, v)]

\* Variant: username and password are stored crosswise.
WithPostgresCredentials_Swapped(config, url, username, password) ==
    [config EXCEPT !.postgres_url = url,
                   !.postgres_username = password,
                   !.postgres_password = username]

\* Variant: supplying credentials also selects the Postgres backend.
WithPostgresCredentials_SelectsPostgres(config, url, username, password) ==
    [config EXCEPT !.postgres_url = url,
                   !.postgres_username = username,
                   !.postgres_password = password,
                   !.database = POSTGRES]

\* The assignments of DevEnvironment.with_postgres_credentials.
WithPostgresCredentials(config, url, username, password) ==
    [config EXCEPT !.postgres_url = url,
                   !.postgres_username = username,
                   !.postgres_password = password]

\* The assignment of ProdLocalEnvironment.with_https.
WithHttps(config) == [config EXCEPT !.require_ssl = TRUE]

NoCredentials == [called |-> FALSE, url |-> "", username |-> "", password |-> ""]

(* ------------------------------------------------- module-level helpers *)

\* The length below which is_jwt_secret_valid rejects a secret.
PredicateMinLen == 32

\* Variant: the length test rejects a secret of exactly the minimum length.
is_jwt_secret_valid_OffByOne(secret) ==
    IF ~Truthy(secret) THEN FALSE
    ELSE IF secret.str = DEV_DEFAULT_JWT_SECRET THEN FALSE
    ELSE IF Len(secret.str) <= PredicateMinLen THEN FALSE
    ELSE TRUE

\* Variant: the predicate does not know the dev default.
is_jwt_secret_valid_NoDefaultCheck(secret) ==
    IF ~Truthy(secret) THEN FALSE
    ELSE IF Len(secret.str) < PredicateMinLen THEN FALSE
    ELSE TRUE

\* is_jwt_secret_valid(secret): `not secret`, the dev default, then the length.
is_jwt_secret_valid(secret) ==
    IF ~Truthy(secret) THEN FALSE
    ELSE IF secret.str = DEV_DEFAULT_JWT_SECRET THEN FALSE
    ELSE IF Len(secret.str) < PredicateMinLen THEN FALSE
    ELSE TRUE

\* The longest value mask_sensitive_value hides completely.
MaskLimit == 4

\* Variant: a value of exactly four characters is shown by its ends.
mask_sensitive_value_Strict(value) ==
    IF Len(value) < MaskLimit THEN "****"
    ELSE SubSeq(value, 1, 2) \o "..." \o SubSeq(value, Len(value) - 1, Len(value))

\* mask_sensitive_value(value): f"{value[:2]}...{value[-2:]}" past four characters.
mask_sensitive_value(value) ==
    IF Len(value) <= MaskLimit THEN "****"
    ELSE SubSeq(value, 1, 2) \o "..." \o SubSeq(value, Len(value) - 1, Len(value))

\* No helper has been called.
NoHelperCall ==
    [fn |-> "none", secret |-> None, value |-> "", valid |-> FALSE, error |-> NoError, masked |-> ""]

\* Secrets handed to the predicate and to validation: runs of one character of
\* every length up to MaxSecretLen, the dev default, and its neighbours.
MaxSecretLen == 34
SecretStrings ==
    {Repeat(c, n) : c \in {"a", "B"}, n \in 0..MaxSecretLen}
        \cup {DEV_DEFAULT_JWT_SECRET,
              DEV_DEFAULT_JWT_SECRET \o "!",
              SubSeq(DEV_DEFAULT_JWT_SECRET, 1, PredicateMinLen - 1),
              SubSeq(DEV_DEFAULT_JWT_SECRET, 1, PredicateMinLen)}
SecretArgs == {None} \cup {Some(s) : s \in SecretStrings}

\* Values handed to the masking helper: the pieces of a sample text, up to
\* MaxValueLen characters long.
MaxValueLen == 9
MaskText == "secret123-Token_x"
MaskArgs ==
    {""} \cup {SubSeq(MaskText, p[1], p[1] + p[2] - 1) :
                  p \in {q \in (1..Len(MaskText)) \X (1..MaxValueLen) :
                            q[1] + q[2] - 1 <= Len(MaskText)}}

\* os.environ holding JWT_SECRET = secret, or no JWT_SECRET at all.
EnvironWithSecret(secret) ==
    IF secret.isNone THEN EmptyDict ELSE SetItem(EmptyDict, "JWT_SECRET", secret.str)

(* ----------------------------------------------------- cs_cli.py commands *)

\* Return codes a subprocess (mvn, npm, java, a python script) may give.
ReturnCodes == {0, 1, 2}

\* No command has been started.
NoCommand ==
    [cmd |-> "none", options |-> {}, pc |-> "idle", built |-> FALSE, env |-> EmptyDict,
     steps |-> <<>>, results |-> <<>>, message |-> <<>>, exited |-> FALSE, code |-> 0]

\* A typer option given on the command line or left out.
Flag(name, given) == IF given THEN {name} ELSE {}

\* raise typer.Exit(code); also how a command ends when an exception escapes it.
Exit(c, code) == [c EXCEPT !.pc = "exit", !.exited = TRUE, !.code = code]

\* console.print of one message.
Report(c, lines) == [c EXCEPT !.message = lines]

\* A subprocess or helper the command launches.
RunStep(c, step) == [c EXCEPT !.steps = Append(@, step)]

\* results[name] = rc; every name is written once per run, so the dict's
\* insertion order is the order of the sequence.
Record(c, name, rc) == [c EXCEPT !.results = Append(@, [name |-> name, rc |-> rc])]

\* all(rc == 0 for rc in results.values()) and the all_passed loop of test.
AllPassed(results) == \A i \in DOMAIN results : results[i].rc = 0

STEP_MVN_PACKAGE == "mvn clean package -DskipTests"
STEP_ENSURE_POSTGRES == "_ensure_postgres"
STEP_JAVA_JAR == "java -jar"
STEP_MVN_TEST == "mvn test"
STEP_MVN_INTEGRATION == "mvn verify -DskipITs=false"
STEP_NPM_TEST == "npm run test:run"
STEP_MVN_PITEST == "mvn pitest:mutationCoverage"
STEP_MVN_DEPENDENCY_CHECK == "mvn dependency-check:check"
STEP_API_FUZZING == "api_fuzzing.py --start-app"
STEP_METRICS == "ci_metrics_summary.py"

\* goals of ci-local's step 1, as the mvn command line.
MavenVerify(fast) ==
    IF fast THEN "mvn clean verify -DskipPitest=true -Ddependency-check.skip=true"
    ELSE "mvn clean verify"

\* The builder prod_local creates: ProdLocalEnvironment(), with_https() if --https.
ProdLocalCommandBuilder(env, https) ==
    LET config == ProdLocalConfig(env)
    IN  [cls |-> ProdLocalEnvironment,
         config |-> IF https THEN WithHttps(config) ELSE config]

\* Variant: the except clause prints the message and the command carries on.
ProdLocalAfterValidation_Continues(c, outcome, skip_build) ==
    LET next == IF skip_build THEN "find_jar" ELSE "build_jar"
    IN  IF outcome.kind = "raised"
        THEN [Report(c, <<"Configuration Error:", outcome.error>>) EXCEPT !.pc = next]
        ELSE [c EXCEPT !.built = TRUE, !.env = outcome.env, !.pc = next]

\* prod_local's try/except around construction and build().
ProdLocalAfterValidation(c, outcome, skip_build) ==
    IF outcome.kind = "raised"
    THEN Exit(Report(c, <<"Configuration Error:", outcome.error>>), 1)
    ELSE [c EXCEPT !.built = TRUE, !.env = outcome.env,
                   !.pc = IF skip_build THEN "find_jar" ELSE "build_jar"]

TestSelectors == {"--unit", "--integration", "--frontend", "--mutation", "--security"}
TestOptions == TestSelectors \cup {"--fast"}

\* run_all = not any([unit, integration, frontend, mutation, security])
RunAll(options) == options \cap TestSelectors = {}

\* The conditions of the five blocks of the test command.
RunsUnit(options) == RunAll(options) \/ "--unit" \in options
RunsIntegration(options) == RunAll(options) \/ "--integration" \in options
RunsFrontend(options) == RunAll(options) \/ "--frontend" \in options
RunsMutation(options) == (RunAll(options) /\ "--fast" \notin options) \/ "--mutation" \in options
RunsSecurity(options) == (RunAll(options) /\ "--fast" \notin options) \/ "--security" \in options

\* One block of the test command: run the step and record it, or skip it.
TestBlock(c, selected, step, name, rc, next) ==
    IF selected
    THEN [Record(RunStep(c, step), name, rc) EXCEPT !.pc = next]
    ELSE [c EXCEPT !.pc = next]

\* Variant: ci-local reports the failed build and goes on to the next step.
CiLocalAfterVerify_Continues(c, rc) ==
    IF rc # 0
    THEN [Report(c, <<"Build failed, stopping">>) EXCEPT !.pc = "metrics"]
    ELSE [c EXCEPT !.pc = "metrics"]

\* ci_local after step 1: `if rc != 0: ... raise typer.Exit(1)`.
CiLocalAfterVerify(c, rc) ==
    IF rc # 0
    THEN Exit(Report(c, <<"Build failed, stopping">>), 1)
    ELSE [c EXCEPT !.pc = "metrics"]

(* ------------------------------------------------ ci_metrics_summary.py *)

\* A loader's result: None or a dict.
NoneDict == [isNone |-> TRUE, dict |-> EmptyDict]
SomeDict(d) == [isNone |-> FALSE, dict |-> d]

\* `if d:` for an Optional[Dict]: neither None nor the empty dict.
TruthyDict(o) == (~o.isNone) /\ DOMAIN o.dict # {}

\* percent(part, whole) in tenths of a percent: round(part / whole * 100, 1),
\* 0.0 for whole = 0. The counts of the reports below give no rounding tie.
percent(part, whole) ==
    IF whole = 0 THEN 0 ELSE (2 * part * 1000 + whole) \div (2 * whole)

RECURSIVE Sum(_)
Sum(seq) == IF seq = <<>> THEN 0 ELSE Head(seq) + Sum(Tail(seq))

\* load_jacoco(): the first LINE counter among the root's children or, when
\* the root has no counter child, among all counter elements.
load_jacoco(report) ==
    IF ~report.exists THEN NoneDict
    ELSE IF ~report.parses THEN NoneDict
    ELSE LET counters == IF report.top # <<>> THEN report.top ELSE report.nested
             lines == {i \in DOMAIN counters : counters[i].type = "LINE"}
         IN  IF lines = {} THEN NoneDict
             ELSE LET counter == counters[CHOOSE i \in lines : \A j \in lines : i <= j]
                      total == counter.covered + counter.missed
                  IN  SomeDict([k \in {"covered", "missed", "total", "pct"} |->
                                  CASE k = "covered" -> counter.covered
                                    [] k = "missed" -> counter.missed
                                    [] k = "total" -> total
                                    [] k = "pct" -> percent(counter.covered, total)])

\* load_pitest(): a three-key dict for a report without mutations, a
\* five-key dict otherwise.
load_pitest(report) ==
    IF ~report.exists THEN NoneDict
    ELSE IF ~report.parses THEN NoneDict
    ELSE LET mutations == report.mutations
             total == Len(mutations)
             killed == Cardinality({i \in DOMAIN mutations : mutations[i].status = "KILLED"})
             survived == Cardinality({i \in DOMAIN mutations : mutations[i].status = "SURVIVED"})
             detected == Cardinality({i \in DOMAIN mutations : mutations[i].detected = "true"})
         IN  IF total = 0
             THEN SomeDict([k \in {"total", "killed", "pct"} |-> 0])
             ELSE SomeDict([k \in {"total", "killed", "survived", "detected", "pct"} |->
                              CASE k = "total" -> total
                                [] k = "killed" -> killed
                                [] k = "survived" -> survived
                                [] k = "detected" -> detected
                                [] k = "pct" -> percent(killed, total)])

\* load_dependency_check(): each dependency is the number of its vulnerabilities
\* (0 for a missing, null or empty "vulnerabilities" entry).
load_dependency_check(report) ==
    IF ~report.exists THEN NoneDict
    ELSE IF ~report.parses THEN NoneDict
    ELSE LET dependencies == report.dependencies
             vulnerable == {i \in DOMAIN dependencies : dependencies[i] > 0}
         IN  SomeDict([k \in {"dependencies", "vulnerable_dependencies", "vulnerabilities"} |->
                          CASE k = "dependencies" -> Len(dependencies)
                            [] k = "vulnerable_dependencies" -> Cardinality(vulnerable)
                            [] k = "vulnerabilities" -> Sum(dependencies)])

\* load_surefire(): sums over the TEST-*.xml files that parse; None when the
\* directory is missing or the sums of tests, failures and errors are all 0.
\* time is in hundredths of a second.
load_surefire(report) ==
    IF ~report.exists THEN NoneDict
    ELSE LET parsed == SelectSeq(report.files, LAMBDA f : f.parses)
             total == Sum([i \in DOMAIN parsed |-> parsed[i].tests])
             failures == Sum([i \in DOMAIN parsed |-> parsed[i].failures])
             errors == Sum([i \in DOMAIN parsed |-> parsed[i].errors])
         IN  IF total = 0 /\ failures = 0 /\ errors = 0 THEN NoneDict
             ELSE SomeDict([k \in {"tests", "failures", "errors", "skipped", "time"} |->
                              CASE k = "tests" -> total
                                [] k = "failures" -> failures
                                [] k = "errors" -> errors
                                [] k = "skipped" -> Sum([i \in DOMAIN parsed |-> parsed[i].skipped])
                                [] k = "time" -> Sum([i \in DOMAIN parsed |-> parsed[i].time])])

\* One branch pair of main(): the row built from a loader's dict by reading
\* `keys` in order, or the fixed row when the loader gave nothing. Reading a
\* key the dict lacks raises KeyError. A row's text is kept as the values it
\* is formatted from.
MetricRow(metric, loaded, keys, result, noData, noDetail) ==
    IF ~TruthyDict(loaded)
    THEN [raised |-> FALSE, key |-> "",
          row |-> [metric |-> metric, result |-> noData, detail |-> noDetail, values |-> EmptyDict]]
    ELSE LET missing == {i \in DOMAIN keys : keys[i] \notin DOMAIN loaded.dict}
         IN  IF missing # {}
             THEN [raised |-> TRUE, key |-> keys[CHOOSE i \in missing : \A j \in missing : i <= j],
                   row |-> [metric |-> metric, result |-> "", detail |-> "", values |-> EmptyDict]]
             ELSE [raised |-> FALSE, key |-> "",
                   row |-> [metric |-> metric, result |-> result, detail |-> "",
                            values |-> [k \in {keys[i] : i \in DOMAIN keys} |-> loaded.dict[k]]]]

\* The metric names of the four rows, in the order main() appends them.
Metrics == <<"Tests", "Line coverage (JaCoCo)", "Mutation score (PITest)", "Dependency-Check">>

\* The four rows of main(), each from its loader.
SummaryRows(reports) ==
    <<MetricRow(Metrics[1], load_surefire(reports.surefire),
                <<"tests", "failures", "errors", "skipped", "time">>,
                "passing", "_no data_", "Surefire reports not found."),
      MetricRow(Metrics[2], load_jacoco(reports.jacoco),
                <<"pct", "covered", "total">>,
                "%", "_no data_", "Jacoco XML report missing."),
      MetricRow(Metrics[3], load_pitest(reports.pitest),
                <<"killed", "survived", "total", "pct">>,
                "%", "_no data_", "PITest report not generated (likely skipped)."),
      MetricRow(Metrics[4], load_dependency_check(reports.depcheck),
                <<"vulnerable_dependencies", "vulnerabilities", "dependencies">>,
                "scan complete", "_not run_",
                "Report missing (probably skipped when NVD_API_KEY was not provided).")>>

\* main(): the rows are appended in order and written out at the end; the call
\* returns 0. An exception raised while a row is built ends the call there:
\* nothing is written and the process exits with the interpreter's code 1.
main(reports) ==
    LET rows == SummaryRows(reports)
        raising == {i \in DOMAIN rows : rows[i].raised}
    IN  IF raising = {}
        THEN [kind |-> "returned", code |-> 0, error |-> NoError,
              rows |-> [i \in DOMAIN rows |-> rows[i].row],
              written |-> [i \in DOMAIN rows |-> rows[i].row]]
        ELSE LET first == CHOOSE i \in raising : \A j \in raising : i <= j
             IN  [kind |-> "raised", code |-> 1,
                  error |-> "KeyError: '" \o rows[first].key \o "'",
                  rows |-> [i \in 1..(first - 1) |-> rows[i].row],
                  written |-> <<>>]

\* main() has not run.
NoOutcome == [kind |-> "none", code |-> 0, error |-> NoError, rows |-> <<>>, written |-> <<>>]

\* A report that is not on disk, and one that does not parse.
MissingReport(r) == [r EXCEPT !.exists = FALSE]
UnparseableReport(r) == [r EXCEPT !.parses = FALSE]

EmptySurefire == [exists |-> TRUE, files |-> <<>>]
EmptyJacoco == [exists |-> TRUE, parses |-> TRUE, top |-> <<>>, nested |-> <<>>]
EmptyPitest == [exists |-> TRUE, parses |-> TRUE, mutations |-> <<>>]
EmptyDepcheck == [exists |-> TRUE, parses |-> TRUE, dependencies |-> <<>>]

UnparseableSuite == [parses |-> FALSE, tests |-> 0, failures |-> 0, errors |-> 0, skipped |-> 0, time |-> 0]
Suite(tests, failures, errors, skipped, time) ==
    [parses |-> TRUE, tests |-> tests, failures |-> failures, errors |-> errors,
     skipped |-> skipped, time |-> time]
Counter(type, covered, missed) == [type |-> type, covered |-> covered, missed |-> missed]
Mutation(status, detected) == [status |-> status, detected |-> detected]

\* The states of target/surefire-reports: no directory, no file, a file that
\* does not parse, a suite without tests, suites with results.
SurefireReports ==
    {MissingReport(EmptySurefire),
     EmptySurefire,
     [EmptySurefire EXCEPT !.files = <<UnparseableSuite>>],
     [EmptySurefire EXCEPT !.files = <<Suite(0, 0, 0, 0, 0)>>],
     [EmptySurefire EXCEPT !.files = <<Suite(2, 0, 0, 0, 150)>>],
     [EmptySurefire EXCEPT !.files = <<UnparseableSuite, Suite(2, 1, 0, 1, 150), Suite(1, 0, 1, 0, 25)>>]}

\* The states of target/site/jacoco/jacoco.xml.
JacocoReports ==
    {MissingReport(EmptyJacoco),
     UnparseableReport(EmptyJacoco),
     EmptyJacoco,
     [EmptyJacoco EXCEPT !.nested = <<Counter("BRANCH", 1, 1)>>],
     [EmptyJacoco EXCEPT !.top = <<Counter("LINE", 0, 0)>>],
     [EmptyJacoco EXCEPT !.top = <<Counter("BRANCH", 1, 0), Counter("LINE", 2, 1)>>,
                         !.nested = <<Counter("LINE", 1, 1)>>],
     [EmptyJacoco EXCEPT !.nested = <<Counter("LINE", 1, 1), Counter("LINE", 2, 0)>>]}

\* The states of target/pit-reports/mutations.xml.
PitestReports ==
    {MissingReport(EmptyPitest),
     UnparseableReport(EmptyPitest),
     EmptyPitest,
     [EmptyPitest EXCEPT !.mutations = <<Mutation("KILLED", "true")>>],
     [EmptyPitest EXCEPT !.mutations = <<Mutation("KILLED", "true"), Mutation("SURVIVED", "false"),
                                         Mutation("NO_COVERAGE", "false")>>]}

\* The states of target/dependency-check-report.json.
DepcheckReports ==
    {MissingReport(EmptyDepcheck),
     UnparseableReport(EmptyDepcheck),
     EmptyDepcheck,
     [EmptyDepcheck EXCEPT !.dependencies = <<0, 0>>],
     [EmptyDepcheck EXCEPT !.dependencies = <<0, 2, 1>>]}

ReportSets ==
    [surefire : SurefireReports, jacoco : JacocoReports,
     pitest : PitestReports, depcheck : DepcheckReports]

\* main() has not been called and nothing is known about the reports.
NoSummary == [called |-> FALSE, reports |-> EmptyDict, outcome |-> NoOutcome]

(* ---------------------------------------------------------------- actions *)

Init ==
    /\ environ \in EnvironsOver(EnvironKeys)
    /\ builders = [b \in BuilderIds |-> NoBuilder]
    /\ secretAtInit = [b \in BuilderIds |-> None]
    /\ suppliedCredentials = [b \in BuilderIds |-> NoCredentials]
    /\ httpsCalled = [b \in BuilderIds |-> FALSE]
    /\ ret = NoCall
    /\ helper = NoHelperCall
    /\ cli = NoCommand
    /\ metrics = NoSummary

\* b = DevEnvironment(database)
DevEnvironment_init(b, database) ==
    /\ builders[b].cls = "none"
    /\ builders' = [builders EXCEPT ![b] = [cls |-> DevEnvironment, config |-> DevConfig(database)]]
    /\ ret' = NoCall
    /\ UNCHANGED <<environ, secretAtInit, suppliedCredentials, httpsCalled, helper, cli, metrics>>

\* b = ProdLocalEnvironment()
ProdLocalEnvironment_init(b) ==
    /\ builders[b].cls = "none"
    /\ builders' = [builders EXCEPT ![b] = [cls |-> ProdLocalEnvironment, config |-> ProdLocalConfig(environ)]]
    /\ secretAtInit' = [secretAtInit EXCEPT ![b] = Get(environ, "JWT_SECRET")]
    /\ ret' = NoCall
    /\ UNCHANGED <<environ, suppliedCredentials, httpsCalled, helper, cli, metrics>>

\* b = CILocalEnvironment()
CILocalEnvironment_init(b) ==
    /\ builders[b].cls = "none"
    /\ builders' = [builders EXCEPT ![b] = [cls |-> CILocalEnvironment, config |-> CILocalConfig]]
    /\ ret' = NoCall
    /\ UNCHANGED <<environ, secretAtInit, suppliedCredentials, httpsCalled, helper, cli, metrics>>

\* b.with_postgres_credentials(url, username, password): a DevEnvironment method
with_postgres_credentials(b, url, username, password) ==
    /\ builders[b].cls = DevEnvironment
    /\ builders' = [builders EXCEPT ![b].config =
                        WithPostgresCredentials(@, url, username, password)]
    /\ suppliedCredentials' = [suppliedCredentials EXCEPT ![b] =
                        [called |-> TRUE, url |-> url, username |-> username, password |-> password]]
    /\ ret' = NoCall
    /\ UNCHANGED <<environ, secretAtInit, httpsCalled, helper, cli, metrics>>

\* b.with_https(): a ProdLocalEnvironment method
with_https(b) ==
    /\ builders[b].cls = ProdLocalEnvironment
    /\ builders' = [builders EXCEPT ![b].config = WithHttps(@)]
    /\ httpsCalled' = [httpsCalled EXCEPT ![b] = TRUE]
    /\ ret' = NoCall
    /\ UNCHANGED <<environ, secretAtInit, suppliedCredentials, helper, cli, metrics>>

\* b._config.extra_vars[k] = v: the extras dict is a plain mutable field
set_extra_var(b, k, v) ==
    /\ builders[b].cls # "none"
    /\ Cardinality(DOMAIN builders[b].config.extra_vars \cup {k}) <= MaxExtras
    /\ Get(builders[b].config.extra_vars, k) # Some(v)
    /\ builders' = SetExtraVar(builders, b, k, v)
    /\ ret' = NoCall
    /\ UNCHANGED <<environ, secretAtInit, suppliedCredentials, httpsCalled, helper, cli, metrics>>

\* b.build()
build(b) ==
    /\ builders[b].cls # "none"
    /\ ret' = BuildOutcome(b, builders[b], environ)
    /\ builders' = [builders EXCEPT ![b] = BuilderAfterBuild(@)]
    /\ environ' = EnvironAfterBuild(builders[b], environ)
    /\ UNCHANGED <<secretAtInit, suppliedCredentials, httpsCalled, helper, cli, metrics>>

\* result[k] = v on the mapping the last build() returned
result_setitem(k, v) ==
    /\ ret.op = "build" /\ ret.kind = "returned"
    /\ ret' = [ret EXCEPT !.op = "setitem", !.env = SetItem(@, k, v)]
    /\ environ' = EnvironAfterResultWrite(environ, k, v)
    /\ UNCHANGED <<builders, secretAtInit, suppliedCredentials, httpsCalled, helper, cli, metrics>>

\* The surrounding process sets a variable (export K=v, patch.dict(os.environ, {K: v})).
setenv(k, v) ==
    /\ Get(environ, k) # Some(v)
    /\ environ' = SetItem(environ, k, v)
    /\ ret' = NoCall
    /\ UNCHANGED <<builders, secretAtInit, suppliedCredentials, httpsCalled, helper, cli, metrics>>

\* The surrounding process removes a variable (unset K, os.environ.pop(K, None)).
unsetenv(k) ==
    /\ k \in DOMAIN environ
    /\ environ' = DelItem(environ, k)
    /\ ret' = NoCall
    /\ UNCHANGED <<builders, secretAtInit, suppliedCredentials, httpsCalled, helper, cli, metrics>>

\* The calls on builder b.
BuilderCall(b) ==
    \/ \E database \in DatabaseArgs : DevEnvironment_init(b, database)
    \/ ProdLocalEnvironment_init(b)
    \/ CILocalEnvironment_init(b)
    \/ \E url \in UrlArgs, username \in UsernameArgs, password \in PasswordArgs :
          with_postgres_credentials(b, url, username, password)
    \/ with_https(b)
    \/ \E k \in ExtraKeys : \E v \in ExtraValues(k) : set_extra_var(b, k, v)
    \/ build(b)

Next ==
    \/ \E b \in SingleBuilder, database \in DatabaseArgs : DevEnvironment_init(b, database)
    \/ \E b \in SingleBuilder : ProdLocalEnvironment_init(b)
    \/ \E b \in SingleBuilder : CILocalEnvironment_init(b)
    \/ \E b \in SingleBuilder, url \in UrlArgs, username \in UsernameArgs, password \in PasswordArgs :
          with_postgres_credentials(b, url, username, password)
    \/ \E b \in SingleBuilder : with_https(b)
    \/ \E b \in SingleBuilder, k \in ExtraKeys : \E v \in ExtraValues(k) : set_extra_var(b, k, v)
    \/ \E b \in SingleBuilder : build(b)
    \/ \E w \in ResultWrites : result_setitem(w[1], w[2])
    \/ \E k \in EnvironKeys : \E v \in EnvironValues(k) : setenv(k, v)
    \/ \E k \in EnvironKeys : unsetenv(k)

Spec == Init /\ [][Next]_vars

\* Two builders alive at once under a fixed ambient environment.
TwoBuilderEnvironKeys == {"JWT_SECRET", "SPRING_DATASOURCE_URL"}

InitTwo ==
    /\ environ \in EnvironsOver(TwoBuilderEnvironKeys)
    /\ builders = [b \in BuilderIds |-> NoBuilder]
    /\ secretAtInit = [b \in BuilderIds |-> None]
    /\ suppliedCredentials = [b \in BuilderIds |-> NoCredentials]
    /\ httpsCalled = [b \in BuilderIds |-> FALSE]
    /\ ret = NoCall
    /\ helper = NoHelperCall
    /\ cli = NoCommand
    /\ metrics = NoSummary

NextTwo == \E b \in BuilderIds : BuilderCall(b)

SpecTwo == InitTwo /\ [][NextTwo]_vars

(* -------------------------------------------- calls of the module helpers *)

builderVars == <<environ, builders, secretAtInit, suppliedCredentials, httpsCalled, ret>>

\* is_jwt_secret_valid(secret)
Call_is_jwt_secret_valid(secret) ==
    /\ helper' = [NoHelperCall EXCEPT !.fn = "is_jwt_secret_valid",
                                      !.secret = secret,
                                      !.valid = is_jwt_secret_valid(secret)]
    /\ UNCHANGED <<builderVars, cli, metrics>>

\* mask_sensitive_value(value)
Call_mask_sensitive_value(value) ==
    /\ helper' = [NoHelperCall EXCEPT !.fn = "mask_sensitive_value",
                                      !.value = value,
                                      !.masked = mask_sensitive_value(value)]
    /\ UNCHANGED <<builderVars, cli, metrics>>

\* ProdLocalEnvironment().validate() in a process whose JWT_SECRET is `secret`
\* (not set at all for None).
Call_validate(secret) ==
    /\ helper' = [NoHelperCall EXCEPT !.fn = "validate",
                                      !.secret = secret,
                                      !.error = ProdLocalValidate(ProdLocalConfig(EnvironWithSecret(secret)))]
    /\ UNCHANGED <<builderVars, cli, metrics>>

InitHelpers ==
    /\ environ = EmptyDict
    /\ builders = [b \in BuilderIds |-> NoBuilder]
    /\ secretAtInit = [b \in BuilderIds |-> None]
    /\ suppliedCredentials = [b \in BuilderIds |-> NoCredentials]
    /\ httpsCalled = [b \in BuilderIds |-> FALSE]
    /\ ret = NoCall
    /\ helper = NoHelperCall
    /\ cli = NoCommand
    /\ metrics = NoSummary

NextHelpers ==
    \/ \E secret \in SecretArgs : Call_is_jwt_secret_valid(secret)
    \/ \E value \in MaskArgs : Call_mask_sensitive_value(value)
    \/ \E secret \in SecretArgs : Call_validate(secret)

SpecHelpers == InitHelpers /\ [][NextHelpers]_vars

(* ------------------------------------------------------ cs_cli.py: runs *)

\* cs prod-local [--skip-build] [--https]: up to the end of the try block.
prod_local(skip_build, https) ==
    /\ cli.cmd = "none"
    /\ LET c == [NoCommand EXCEPT !.cmd = "prod-local",
                                  !.options = Flag("--skip-build", skip_build) \cup Flag("--https", https)]
           outcome == BuildOutcome("cli", ProdLocalCommandBuilder(environ, https), environ)
       IN  cli' = ProdLocalAfterValidation(c, outcome, skip_build)
    /\ UNCHANGED <<builderVars, helper, metrics>>

\* prod-local: `if not skip_build:` _run_maven(["clean", "package", "-DskipTests"])
prod_local_build_jar(rc) ==
    /\ cli.cmd = "prod-local" /\ cli.pc = "build_jar"
    /\ LET c == RunStep(cli, STEP_MVN_PACKAGE)
       IN  cli' = IF rc # 0
                  THEN Exit(Report(c, <<"Build failed">>), 1)
                  ELSE [c EXCEPT !.pc = "find_jar"]
    /\ UNCHANGED <<builderVars, helper, metrics>>

\* prod-local: the glob for target/*.jar without the -sources.jar files
prod_local_find_jar(found) ==
    /\ cli.cmd = "prod-local" /\ cli.pc = "find_jar"
    /\ cli' = IF ~found
              THEN Exit(Report(cli, <<"No JAR file found in target/. Run without --skip-build.">>), 1)
              ELSE [cli EXCEPT !.pc = "postgres"]
    /\ UNCHANGED <<builderVars, helper, metrics>>

\* prod-local: _ensure_postgres(COMPOSE_FILE), outside any try block
prod_local_ensure_postgres(started) ==
    /\ cli.cmd = "prod-local" /\ cli.pc = "postgres"
    /\ LET c == RunStep(cli, STEP_ENSURE_POSTGRES)
       IN  cli' = IF started THEN [c EXCEPT !.pc = "run_jar"] ELSE Exit(c, 1)
    /\ UNCHANGED <<builderVars, helper, metrics>>

\* prod-local: subprocess.run(["java", "-jar", jar], env=env), Exit(returncode);
\* a KeyboardInterrupt prints "Stopped" and the command returns.
prod_local_run_jar(rc, interrupted) ==
    /\ cli.cmd = "prod-local" /\ cli.pc = "run_jar"
    /\ LET c == RunStep(cli, STEP_JAVA_JAR)
       IN  cli' = IF interrupted THEN Exit(Report(c, <<"Stopped">>), 0) ELSE Exit(c, rc)
    /\ UNCHANGED <<builderVars, helper, metrics>>

\* cs test [--unit] [--integration] [--frontend] [--mutation] [--security] [--fast]
test(options) ==
    /\ cli.cmd = "none"
    /\ cli' = [NoCommand EXCEPT !.cmd = "test", !.options = options, !.pc = "unit"]
    /\ UNCHANGED <<builderVars, helper, metrics>>

test_unit(rc) ==
    /\ cli.cmd = "test" /\ cli.pc = "unit"
    /\ cli' = TestBlock(cli, RunsUnit(cli.options), STEP_MVN_TEST, "Unit Tests", rc, "integration")
    /\ UNCHANGED <<builderVars, helper, metrics>>

test_integration(rc) ==
    /\ cli.cmd = "test" /\ cli.pc = "integration"
    /\ cli' = TestBlock(cli, RunsIntegration(cli.options), STEP_MVN_INTEGRATION,
                        "Integration Tests", rc, "frontend")
    /\ UNCHANGED <<builderVars, helper, metrics>>

test_frontend(rc) ==
    /\ cli.cmd = "test" /\ cli.pc = "frontend"
    /\ cli' = TestBlock(cli, RunsFrontend(cli.options), STEP_NPM_TEST, "Frontend Tests", rc, "mutation")
    /\ UNCHANGED <<builderVars, helper, metrics>>

test_mutation(rc) ==
    /\ cli.cmd = "test" /\ cli.pc = "mutation"
    /\ cli' = TestBlock(cli, RunsMutation(cli.options), STEP_MVN_PITEST, "Mutation Testing", rc, "security")
    /\ UNCHANGED <<builderVars, helper, metrics>>

\* The security block: the OWASP dependency check, then API fuzzing.
test_security(rc, fuzzing_rc) ==
    /\ cli.cmd = "test" /\ cli.pc = "security"
    /\ LET c == TestBlock(cli, RunsSecurity(cli.options), STEP_MVN_DEPENDENCY_CHECK,
                          "OWASP Dep-Check", rc, "security")
       IN  cli' = TestBlock(c, RunsSecurity(cli.options), STEP_API_FUZZING,
                            "API Fuzzing", fuzzing_rc, "summary")
    /\ UNCHANGED <<builderVars, helper, metrics>>

\* The summary table and raise typer.Exit(0 if all_passed else 1).
test_summary ==
    /\ cli.cmd = "test" /\ cli.pc = "summary"
    /\ cli' = Exit(cli, IF AllPassed(cli.results) THEN 0 ELSE 1)
    /\ UNCHANGED <<builderVars, helper, metrics>>

\* cs ci-local [--fast]: up to the end of the try block.
ci_local(fast) ==
    /\ cli.cmd = "none"
    /\ LET c == [NoCommand EXCEPT !.cmd = "ci-local", !.options = Flag("--fast", fast)]
           outcome == BuildOutcome("cli", [cls |-> CILocalEnvironment, config |-> CILocalConfig], environ)
       IN  cli' = IF outcome.kind = "raised"
                  THEN Exit(Report(c, <<outcome.error>>), 1)
                  ELSE [c EXCEPT !.built = TRUE, !.env = outcome.env, !.pc = "verify"]
    /\ UNCHANGED <<builderVars, helper, metrics>>

\* ci-local step 1: mvn clean verify, recorded as "Build & Verify".
ci_local_verify(rc) ==
    /\ cli.cmd = "ci-local" /\ cli.pc = "verify"
    /\ cli' = CiLocalAfterVerify(
                  Record(RunStep(cli, MavenVerify("--fast" \in cli.options)), "Build & Verify", rc), rc)
    /\ UNCHANGED <<builderVars, helper, metrics>>

\* ci-local step 2: ci_metrics_summary.py; its return code is dropped.
ci_local_metrics(rc) ==
    /\ cli.cmd = "ci-local" /\ cli.pc = "metrics"
    /\ cli' = [RunStep(cli, STEP_METRICS) EXCEPT
                  !.pc = IF "--fast" \notin cli.options THEN "fuzzing" ELSE "summary"]
    /\ UNCHANGED <<builderVars, helper, metrics>>

\* ci-local step 3: api_fuzzing.py --start-app, recorded as "API Fuzzing".
ci_local_fuzzing(rc) ==
    /\ cli.cmd = "ci-local" /\ cli.pc = "fuzzing"
    /\ cli' = [Record(RunStep(cli, STEP_API_FUZZING), "API Fuzzing", rc) EXCEPT !.pc = "summary"]
    /\ UNCHANGED <<builderVars, helper, metrics>>

\* The results table and raise typer.Exit(0 if all_passed else 1).
ci_local_summary ==
    /\ cli.cmd = "ci-local" /\ cli.pc = "summary"
    /\ cli' = Exit(cli, IF AllPassed(cli.results) THEN 0 ELSE 1)
    /\ UNCHANGED <<builderVars, helper, metrics>>

InitCli ==
    /\ environ \in EnvironsOver({"JWT_SECRET"})
    /\ builders = [b \in BuilderIds |-> NoBuilder]
    /\ secretAtInit = [b \in BuilderIds |-> None]
    /\ suppliedCredentials = [b \in BuilderIds |-> NoCredentials]
    /\ httpsCalled = [b \in BuilderIds |-> FALSE]
    /\ ret = NoCall
    /\ helper = NoHelperCall
    /\ cli = NoCommand
    /\ metrics = NoSummary

NextCli ==
    \/ \E skip_build \in BOOLEAN, https \in BOOLEAN : prod_local(skip_build, https)
    \/ \E rc \in ReturnCodes : prod_local_build_jar(rc)
    \/ \E found \in BOOLEAN : prod_local_find_jar(found)
    \/ \E started \in BOOLEAN : prod_local_ensure_postgres(started)
    \/ \E rc \in ReturnCodes, interrupted \in BOOLEAN : prod_local_run_jar(rc, interrupted)
    \/ \E options \in SUBSET TestOptions : test(options)
    \/ \E rc \in ReturnCodes : test_unit(rc)
    \/ \E rc \in ReturnCodes : test_integration(rc)
    \/ \E rc \in ReturnCodes : test_frontend(rc)
    \/ \E rc \in ReturnCodes : test_mutation(rc)
    \/ \E rc \in ReturnCodes, fuzzing_rc \in ReturnCodes : test_security(rc, fuzzing_rc)
    \/ test_summary
    \/ \E fast \in BOOLEAN : ci_local(fast)
    \/ \E rc \in ReturnCodes : ci_local_verify(rc)
    \/ \E rc \in ReturnCodes : ci_local_metrics(rc)
    \/ \E rc \in ReturnCodes : ci_local_fuzzing(rc)
    \/ ci_local_summary

SpecCli == InitCli /\ [][NextCli]_vars

(* ----------------------------------------------- ci_metrics_summary: run *)

\* python ci_metrics_summary.py: sys.exit(main())
ci_metrics_summary_main ==
    /\ ~metrics.called
    /\ metrics' = [metrics EXCEPT !.called = TRUE, !.outcome = main(metrics.reports)]
    /\ UNCHANGED <<builderVars, helper, cli>>

InitMetrics ==
    /\ environ = EmptyDict
    /\ builders = [b \in BuilderIds |-> NoBuilder]
    /\ secretAtInit = [b \in BuilderIds |-> None]
    /\ suppliedCredentials = [b \in BuilderIds |-> NoCredentials]
    /\ httpsCalled = [b \in BuilderIds |-> FALSE]
    /\ ret = NoCall
    /\ helper = NoHelperCall
    /\ cli = NoCommand
    /\ metrics \in {[NoSummary EXCEPT !.reports = r] : r \in ReportSets}

SpecMetrics == InitMetrics /\ [][ci_metrics_summary_main]_vars

(* ------------------------------- a builder under ambient computed keys *)

\* The keys build() always computes.
ComputedKeys == {"APP_AUTH_COOKIE_SECURE", "COOKIE_SECURE", "SPRING_PROFILES_ACTIVE", "REQUIRE_SSL"}

InitPrecedence ==
    /\ environ \in EnvironsOver(ComputedKeys \cup {"JWT_SECRET"})
    /\ builders = [b \in BuilderIds |-> NoBuilder]
    /\ secretAtInit = [b \in BuilderIds |-> None]
    /\ suppliedCredentials = [b \in BuilderIds |-> NoCredentials]
    /\ httpsCalled = [b \in BuilderIds |-> FALSE]
    /\ ret = NoCall
    /\ helper = NoHelperCall
    /\ cli = NoCommand
    /\ metrics = NoSummary

NextPrecedence == \E b \in SingleBuilder : BuilderCall(b)

SpecPrecedence == InitPrecedence /\ [][NextPrecedence]_vars

TypeOK ==
    /\ DOMAIN environ \subseteq EnvironKeys \cup ComputedKeys
    /\ \A b \in BuilderIds : builders[b].cls \in {"none", DevEnvironment, ProdLocalEnvironment, CILocalEnvironment}
    /\ ret.kind \in {"none", "returned", "raised"}

(* ================================================================ claims *)

\* build() on builder b is the most recent call.
LastBuild(b) == ret.op = "build" /\ ret.builder = b
Returned(b) == LastBuild(b) /\ ret.kind = "returned"
Raised(b) == LastBuild(b) /\ ret.kind = "raised"
IsProdLocal(b) == builders[b].cls = ProdLocalEnvironment

\* The three conditions on a secret string.
SecureSecret(s) == Len(s) > 0 /\ s # DEV_DEFAULT_JWT_SECRET /\ Len(s) >= 32

\* C1 as stated: every mapping ProdLocalEnvironment.build() returns carries a
\* JWT_SECRET that is non-empty, not the dev default and at least 32 characters.
C1_AsStated ==
    \A b \in BuilderIds :
        (Returned(b) /\ IsProdLocal(b)) =>
            /\ "JWT_SECRET" \in DOMAIN ret.env
            /\ SecureSecret(ret.env["JWT_SECRET"])

\* C1 amended: every mapping ProdLocalEnvironment.build() returns comes from a
\* config whose jwt_secret is present, non-empty, not the dev default and at
\* least 32 characters long (a violating config never reaches emission), and
\* the mapping carries that secret as JWT_SECRET unless extra_vars holds a
\* JWT_SECRET entry, which build() applies last without validating it.
C1_Theorem ==
    \A b \in BuilderIds :
        (Returned(b) /\ IsProdLocal(b)) =>
            LET config == builders[b].config
            IN  /\ ~config.jwt_secret.isNone
                /\ SecureSecret(config.jwt_secret.str)
                /\ "JWT_SECRET" \in DOMAIN ret.env
                /\ "JWT_SECRET" \notin DOMAIN config.extra_vars =>
                      /\ ret.env["JWT_SECRET"] = config.jwt_secret.str
                      /\ SecureSecret(ret.env["JWT_SECRET"])

\* C1 witness: a ProdLocal build returned a mapping while the ambient
\* JWT_SECRET at that moment is not the secret the mapping carries.
C1_Witness ==
    \E b \in BuilderIds :
        /\ Returned(b) /\ IsProdLocal(b)
        /\ "JWT_SECRET" \notin DOMAIN builders[b].config.extra_vars
        /\ builders[b].config.require_ssl
        /\ Get(environ, "JWT_SECRET") # Some(ret.env["JWT_SECRET"])

\* C2: when validation fails, build() raises before any mapping exists: the
\* call returns no mapping at all and os.environ is what it was before it.
C2_Theorem ==
    [][\A b \in BuilderIds :
        (/\ ret'.op = "build" /\ ret'.builder = b
         /\ builders[b].cls # "none"
         /\ Validate(builders[b], environ).error # NoError)
        => (/\ ret'.kind = "raised"
            /\ ret'.env = EmptyDict
            /\ environ' = environ)]_vars

\* C2 witness: a build() call ended in a raised ValueError.
C2_Witness ==
    \E b \in BuilderIds : Raised(b) /\ ret.error # NoError /\ DOMAIN environ # {}

\* C3: ProdLocalEnvironment().build() raises the "JWT_SECRET environment
\* variable is required" error whenever JWT_SECRET was unset or empty in the
\* ambient environment at construction.
C3_Theorem ==
    \A b \in BuilderIds :
        (/\ LastBuild(b) /\ IsProdLocal(b)
         /\ (secretAtInit[b].isNone \/ secretAtInit[b].str = ""))
        => (ret.kind = "raised" /\ ret.error = ERR_REQUIRED)

\* C3 witness: JWT_SECRET was set but empty at construction and build() raised.
C3_Witness ==
    \E b \in BuilderIds :
        /\ Raised(b) /\ IsProdLocal(b)
        /\ secretAtInit[b] = Some("")

\* C4: ProdLocalEnvironment().build() raises the "cannot be the dev default"
\* error, and no other, when the secret equals DEV_DEFAULT_JWT_SECRET.
C4_Theorem ==
    \A b \in BuilderIds :
        (/\ LastBuild(b) /\ IsProdLocal(b)
         /\ secretAtInit[b] = Some(DEV_DEFAULT_JWT_SECRET))
        => (ret.kind = "raised" /\ ret.error = ERR_DEV_DEFAULT)

\* C4 witness: a ProdLocal builder constructed under the placeholder was built.
C4_Witness ==
    \E b \in BuilderIds :
        /\ LastBuild(b) /\ IsProdLocal(b)
        /\ secretAtInit[b] = Some(DEV_DEFAULT_JWT_SECRET)

\* C5: ProdLocalEnvironment().build() raises the "must be at least 32
\* characters" error for every non-empty secret shorter than 32 characters,
\* and for every secret of 32 or more characters other than the placeholder
\* it returns a mapping whose JWT_SECRET is that secret (the builder being
\* fresh from its constructor, extra_vars holds no JWT_SECRET entry).
C5_Theorem ==
    \A b \in BuilderIds :
        (LastBuild(b) /\ IsProdLocal(b) /\ ~secretAtInit[b].isNone) =>
            LET secret == secretAtInit[b].str
            IN  /\ (Len(secret) > 0 /\ Len(secret) < 32) =>
                      (ret.kind = "raised" /\ ret.error = ERR_TOO_SHORT)
                /\ (Len(secret) >= 32 /\ secret # DEV_DEFAULT_JWT_SECRET) =>
                      /\ ret.kind = "returned"
                      /\ "JWT_SECRET" \notin DOMAIN builders[b].config.extra_vars =>
                            Get(ret.env, "JWT_SECRET") = Some(secret)

\* C5 witness: a secret of exactly 32 characters was accepted and emitted.
C5_Witness ==
    \E b \in BuilderIds :
        /\ Returned(b) /\ IsProdLocal(b)
        /\ ~secretAtInit[b].isNone /\ Len(secretAtInit[b].str) = 32
        /\ builders[b].config.extra_vars = EmptyDict
        /\ ret.env["JWT_SECRET"] = secretAtInit[b].str

\* C6 as stated: ProdLocalEnvironment().build() with a valid secret yields both
\* cookie flags "true", SPRING_PROFILES_ACTIVE "prod", and a mapping in which
\* CSP_RELAXED is not a key with value "true", for every ambient environment.
C6_AsStated ==
    \A b \in BuilderIds :
        (Returned(b) /\ IsProdLocal(b) /\ builders[b].config.extra_vars = EmptyDict) =>
            /\ Get(ret.env, "APP_AUTH_COOKIE_SECURE") = Some("true")
            /\ Get(ret.env, "COOKIE_SECURE") = Some("true")
            /\ Get(ret.env, "SPRING_PROFILES_ACTIVE") = Some("prod")
            /\ Get(ret.env, "CSP_RELAXED") # Some("true")

IsDevPostgres(b) ==
    builders[b].cls = DevEnvironment /\ builders[b].config.database = POSTGRES

\* C7 as stated: after DevEnvironment(database="postgres")
\* .with_postgres_credentials(url, username, password).build() the mapping's
\* SPRING_DATASOURCE_URL, _USERNAME and _PASSWORD equal the supplied values.
C7_AsStated ==
    \A b \in BuilderIds :
        (/\ Returned(b) /\ IsDevPostgres(b)
         /\ suppliedCredentials[b].called
         /\ builders[b].config.extra_vars = EmptyDict)
        => (/\ Get(ret.env, "SPRING_DATASOURCE_URL") = Some(suppliedCredentials[b].url)
            /\ Get(ret.env, "SPRING_DATASOURCE_USERNAME") = Some(suppliedCredentials[b].username)
            /\ Get(ret.env, "SPRING_DATASOURCE_PASSWORD") = Some(suppliedCredentials[b].password))

\* C7 amended: after DevEnvironment(database="postgres")
\* .with_postgres_credentials(url, username, password).build(), each of
\* SPRING_DATASOURCE_URL, _USERNAME and _PASSWORD that is absent from the
\* ambient environment equals the supplied url, username or password in the
\* returned mapping, and each one present in the ambient environment keeps
\* its ambient value: the call overrides the builder's default connection
\* parameters, not ambient ones.
C7_Theorem ==
    \A b \in BuilderIds :
        (/\ Returned(b) /\ IsDevPostgres(b)
         /\ suppliedCredentials[b].called
         /\ builders[b].config.extra_vars = EmptyDict)
        => LET supplied == ("SPRING_DATASOURCE_URL" :> suppliedCredentials[b].url)
                        @@ ("SPRING_DATASOURCE_USERNAME" :> suppliedCredentials[b].username)
                        @@ ("SPRING_DATASOURCE_PASSWORD" :> suppliedCredentials[b].password)
           IN  \A k \in DOMAIN supplied :
                  Get(ret.env, k) = IF k \in DOMAIN environ THEN Some(environ[k])
                                    ELSE Some(supplied[k])

\* C7 witness: custom credentials were supplied and built, the URL being
\* absent from the ambient environment and the username present in it.
C7_Witness ==
    \E b \in BuilderIds :
        /\ Returned(b) /\ IsDevPostgres(b)
        /\ suppliedCredentials[b].called
        /\ suppliedCredentials[b].url # DEFAULT_POSTGRES_URL
        /\ builders[b].config.extra_vars = EmptyDict
        /\ "SPRING_DATASOURCE_URL" \notin DOMAIN environ
        /\ "SPRING_DATASOURCE_PASSWORD" \notin DOMAIN environ
        /\ "SPRING_DATASOURCE_USERNAME" \in DOMAIN environ

\* The value the builder is configured with for a datasource variable.
ConfiguredDatasource(config) ==
    ("SPRING_DATASOURCE_URL" :> config.postgres_url)
    @@ ("SPRING_DATASOURCE_USERNAME" :> config.postgres_username)
    @@ ("SPRING_DATASOURCE_PASSWORD" :> config.postgres_password)
    @@ ("SPRING_DATASOURCE_DRIVER_CLASS_NAME" :> "org.postgresql.Driver")

C9_Theorem ==
    \A b \in BuilderIds :
        Returned(b) =>
            \A k \in DOMAIN builders[b].config.extra_vars :
                Get(ret.env, k) = Some(builders[b].config.extra_vars[k])

\* C9 witness: extra_vars names a datasource key that the ambient
\* environment holds with another value, on a Postgres builder.
C9_Witness ==
    \E b \in BuilderIds :
        /\ Returned(b) /\ builders[b].config.database = POSTGRES
        /\ "SPRING_DATASOURCE_URL" \in DOMAIN builders[b].config.extra_vars
        /\ "SPRING_DATASOURCE_URL" \in DOMAIN environ
        /\ environ["SPRING_DATASOURCE_URL"] # builders[b].config.extra_vars["SPRING_DATASOURCE_URL"]
        /\ ret.env["SPRING_DATASOURCE_URL"] = builders[b].config.extra_vars["SPRING_DATASOURCE_URL"]

IsDev(b) == builders[b].cls = DevEnvironment
IsCILocal(b) == builders[b].cls = CILocalEnvironment
NoExtras(b) == builders[b].config.extra_vars = EmptyDict

\* `sub in s` on strings.
Contains(s, sub) ==
    \E i \in 1..(Len(s) - Len(sub) + 1) : SubSeq(s, i, i + Len(sub) - 1) = sub

\* C11: build() called again on the same unmodified builder under an
\* unchanged ambient environment returns a mapping identical to the first,
\* in every mode.
C11_Theorem ==
    [][\A b \in BuilderIds :
        (/\ Returned(b)
         /\ ret'.op = "build" /\ ret'.builder = b)
        => (ret'.kind = "returned" /\ ret'.env = ret.env)]_vars

\* C11 witness: a ProdLocal builder with with_https() applied has returned a
\* mapping (the state from which the second build() starts and in which it ends).
C11_Witness ==
    \E b \in BuilderIds :
        /\ Returned(b) /\ IsProdLocal(b) /\ httpsCalled[b]
        /\ builders[b].config.extra_vars # EmptyDict

\* C12 as stated: DevEnvironment(database="postgres").build() yields
\* SPRING_PROFILES_ACTIVE "dev" and a SPRING_DATASOURCE_URL containing
\* "postgresql", for every ambient environment.
C12_AsStated ==
    \A b \in BuilderIds :
        (Returned(b) /\ IsDevPostgres(b) /\ NoExtras(b) /\ ~suppliedCredentials[b].called) =>
            /\ Get(ret.env, "SPRING_PROFILES_ACTIVE") = Some("dev")
            /\ "SPRING_DATASOURCE_URL" \in DOMAIN ret.env
            /\ Contains(ret.env["SPRING_DATASOURCE_URL"], "postgresql")

\* C12 amended: DevEnvironment(database="postgres").build() yields
\* SPRING_PROFILES_ACTIVE "dev" for every ambient environment, and a
\* SPRING_DATASOURCE_URL that contains "postgresql" whenever the ambient
\* environment holds no SPRING_DATASOURCE_URL; an ambient SPRING_DATASOURCE_URL
\* is kept as it is.
C12_Theorem ==
    \A b \in BuilderIds :
        (Returned(b) /\ IsDevPostgres(b) /\ NoExtras(b) /\ ~suppliedCredentials[b].called) =>
            /\ Get(ret.env, "SPRING_PROFILES_ACTIVE") = Some("dev")
            /\ "SPRING_DATASOURCE_URL" \in DOMAIN ret.env
            /\ IF "SPRING_DATASOURCE_URL" \in DOMAIN environ
               THEN ret.env["SPRING_DATASOURCE_URL"] = environ["SPRING_DATASOURCE_URL"]
               ELSE Contains(ret.env["SPRING_DATASOURCE_URL"], "postgresql")

\* C12 witness: a fresh Dev/Postgres builder built under an ambient
\* environment that holds another profile and no datasource URL.
C12_Witness ==
    \E b \in BuilderIds :
        /\ Returned(b) /\ IsDevPostgres(b) /\ NoExtras(b) /\ ~suppliedCredentials[b].called
        /\ "SPRING_PROFILES_ACTIVE" \in DOMAIN environ
        /\ "SPRING_DATASOURCE_URL" \notin DOMAIN environ
        /\ "SPRING_DATASOURCE_USERNAME" \in DOMAIN environ

\* C13: DevEnvironment() with the H2 database yields SPRING_PROFILES_ACTIVE
\* "default" and build() adds none of the four datasource keys: each of them
\* is in the returned mapping exactly as it is in the ambient environment.
C13_Theorem ==
    \A b \in BuilderIds :
        (Returned(b) /\ IsDev(b) /\ builders[b].config.database = H2 /\ NoExtras(b)) =>
            /\ Get(ret.env, "SPRING_PROFILES_ACTIVE") = Some("default")
            /\ \A k \in DatasourceKeys : Get(ret.env, k) = Get(environ, k)

\* C13 witness: a Dev/H2 build under an ambient environment holding one
\* datasource variable and lacking another, and another profile.
C13_Witness ==
    \E b \in BuilderIds :
        /\ Returned(b) /\ IsDev(b) /\ builders[b].config.database = H2 /\ NoExtras(b)
        /\ "SPRING_DATASOURCE_URL" \notin DOMAIN ret.env
        /\ "SPRING_DATASOURCE_USERNAME" \in DOMAIN ret.env
        /\ "SPRING_PROFILES_ACTIVE" \in DOMAIN environ

\* C14: DevEnvironment().build() yields APP_AUTH_COOKIE_SECURE and
\* COOKIE_SECURE "false", CSP_RELAXED "true" and REQUIRE_SSL "false", for
\* either database and any ambient environment.
C14_Theorem ==
    \A b \in BuilderIds :
        (Returned(b) /\ IsDev(b) /\ NoExtras(b)) =>
            /\ Get(ret.env, "APP_AUTH_COOKIE_SECURE") = Some("false")
            /\ Get(ret.env, "COOKIE_SECURE") = Some("false")
            /\ Get(ret.env, "CSP_RELAXED") = Some("true")
            /\ Get(ret.env, "REQUIRE_SSL") = Some("false")

\* C14 witness: a Dev build under an ambient environment that sets
\* REQUIRE_SSL to something else and has no CSP_RELAXED.
C14_Witness ==
    \E b \in BuilderIds :
        /\ Returned(b) /\ IsDev(b) /\ NoExtras(b)
        /\ "REQUIRE_SSL" \in DOMAIN environ /\ environ["REQUIRE_SSL"] # "false"
        /\ "CSP_RELAXED" \notin DOMAIN environ

\* C15: validate() never fails on a Dev builder, whatever the database, the
\* credentials and the ambient environment: build() on it always returns a mapping.
C15_Theorem ==
    \A b \in BuilderIds : (LastBuild(b) /\ IsDev(b)) => ret.kind = "returned"

\* C15 witness: a Dev build with custom credentials and extras under an
\* ambient environment without JWT_SECRET.
C15_Witness ==
    \E b \in BuilderIds :
        /\ LastBuild(b) /\ IsDev(b)
        /\ suppliedCredentials[b].called
        /\ ~NoExtras(b)
        /\ "JWT_SECRET" \notin DOMAIN environ

\* C16: with a valid secret, ProdLocalEnvironment().with_https().build()
\* yields REQUIRE_SSL "true" and ProdLocalEnvironment().build() yields
\* REQUIRE_SSL "false", whatever REQUIRE_SSL is in the ambient environment.
C16_Theorem ==
    \A b \in BuilderIds :
        (Returned(b) /\ IsProdLocal(b) /\ NoExtras(b)) =>
            Get(ret.env, "REQUIRE_SSL") = IF httpsCalled[b] THEN Some("true") ELSE Some("false")

\* C16 witness: with_https() was called and the build ran under an ambient REQUIRE_SSL.
C16_Witness ==
    \E b \in BuilderIds :
        /\ Returned(b) /\ IsProdLocal(b) /\ NoExtras(b)
        /\ httpsCalled[b]
        /\ "REQUIRE_SSL" \in DOMAIN environ

\* C17 as stated: build() on a CILocal builder always returns a mapping and
\* writes the warning exactly when NVD_API_KEY is absent from the ambient
\* environment at that call (none when it is set).
C17_AsStated ==
    \A b \in BuilderIds :
        (LastBuild(b) /\ IsCILocal(b)) =>
            /\ ret.kind = "returned"
            /\ ret.stderr = IF "NVD_API_KEY" \notin DOMAIN environ THEN <<WARN_NVD>> ELSE <<>>

\* C17 amended: build() on a CILocal builder always returns a mapping and
\* writes the warning exactly when NVD_API_KEY is absent from the ambient
\* environment at that call or set to the empty string (none when it is set
\* to a non-empty value).
C17_Theorem ==
    \A b \in BuilderIds :
        (LastBuild(b) /\ IsCILocal(b)) =>
            /\ ret.kind = "returned"
            /\ ret.stderr = IF \/ "NVD_API_KEY" \notin DOMAIN environ
                               \/ environ["NVD_API_KEY"] = ""
                            THEN <<WARN_NVD>> ELSE <<>>

\* C17 witness: NVD_API_KEY is set to the empty string and the warning was written.
C17_Witness ==
    \E b \in BuilderIds :
        /\ Returned(b) /\ IsCILocal(b)
        /\ Get(environ, "NVD_API_KEY") = Some("")
        /\ ret.stderr = <<WARN_NVD>>

\* C18: CILocalEnvironment().build() yields both cookie flags "true",
\* SPRING_PROFILES_ACTIVE "default" and REQUIRE_SSL "false", and adds neither
\* CSP_RELAXED nor a datasource key (each is as in the ambient environment).
C18_Theorem ==
    \A b \in BuilderIds :
        (Returned(b) /\ IsCILocal(b) /\ NoExtras(b)) =>
            /\ Get(ret.env, "APP_AUTH_COOKIE_SECURE") = Some("true")
            /\ Get(ret.env, "COOKIE_SECURE") = Some("true")
            /\ Get(ret.env, "SPRING_PROFILES_ACTIVE") = Some("default")
            /\ Get(ret.env, "REQUIRE_SSL") = Some("false")
            /\ \A k \in DatasourceKeys \cup {"CSP_RELAXED"} : Get(ret.env, k) = Get(environ, k)

\* C18 witness: a CILocal build under an ambient environment with another
\* profile, without CSP_RELAXED and without a datasource URL.
C18_Witness ==
    \E b \in BuilderIds :
        /\ Returned(b) /\ IsCILocal(b) /\ NoExtras(b)
        /\ "SPRING_PROFILES_ACTIVE" \in DOMAIN environ
        /\ "CSP_RELAXED" \notin DOMAIN ret.env
        /\ "SPRING_DATASOURCE_URL" \notin DOMAIN ret.env
        /\ "SPRING_DATASOURCE_PASSWORD" \in DOMAIN ret.env

\* C19: no construction, mutator call or build() (successful or failed), in
\* any mode, changes os.environ, and neither does a write to a mapping that
\* build() returned.
C19_Theorem ==
    [][(ret'.op \in {"build", "setitem"} \/ builders' # builders) => environ' = environ]_vars

\* C19 witness: the caller changed a key of the returned mapping that
\* os.environ also holds.
C19_Witness ==
    /\ ret.op = "setitem"
    /\ "REQUIRE_SSL" \in DOMAIN environ
    /\ ret.env["REQUIRE_SSL"] = "changed"
    /\ environ["REQUIRE_SSL"] # "changed"

\* C20: builders share no mutable state: a call on one builder (constructor,
\* with_https, with_postgres_credentials, a change of its extras, build)
\* leaves every other builder's configuration and its build() result unchanged.
C20_Theorem ==
    [][\A b \in BuilderIds :
        BuilderCall(b) =>
            \A o \in BuilderIds \ {b} :
                /\ builders'[o] = builders[o]
                /\ builders[o].cls # "none" =>
                      BuildOutcome(o, builders'[o], environ') = BuildOutcome(o, builders[o], environ)]_vars

\* C20 witness: two builders are alive, one carries extras and the other,
\* which has none, has just been built.
C20_Witness ==
    /\ builders["b1"].cls # "none" /\ builders["b2"].cls # "none"
    /\ builders["b1"].config.extra_vars # EmptyDict
    /\ builders["b2"].config.extra_vars = EmptyDict
    /\ Returned("b2")

\* C21: is_jwt_secret_valid returns False for None, for the empty string, for
\* the dev default and for every string shorter than 32 characters, and True
\* for every other string of 32 characters or more.
C21_Theorem ==
    helper.fn = "is_jwt_secret_valid" =>
        LET secret == helper.secret
        IN  /\ secret.isNone => helper.valid = FALSE
            /\ (~secret.isNone /\ secret.str = "") => helper.valid = FALSE
            /\ (~secret.isNone /\ secret.str = DEV_DEFAULT_JWT_SECRET) => helper.valid = FALSE
            /\ (~secret.isNone /\ Len(secret.str) < 32) => helper.valid = FALSE
            /\ (~secret.isNone /\ secret.str # DEV_DEFAULT_JWT_SECRET /\ Len(secret.str) >= 32) =>
                  helper.valid = TRUE

\* C21 witness: the predicate accepted a secret of exactly 32 characters.
C21_Witness ==
    /\ helper.fn = "is_jwt_secret_valid"
    /\ ~helper.secret.isNone
    /\ Len(helper.secret.str) = 32
    /\ helper.valid

\* C22: mask_sensitive_value returns "****" for every string of at most four
\* characters; for a longer string it returns the first two characters, "..."
\* and the last two characters, so "secret123" gives "se...23".
C22_Theorem ==
    helper.fn = "mask_sensitive_value" =>
        LET value == helper.value
            masked == helper.masked
        IN  /\ Len(value) <= 4 => masked = "****"
            /\ Len(value) > 4 =>
                  /\ Len(masked) = 7
                  /\ SubSeq(masked, 1, 2) = SubSeq(value, 1, 2)
                  /\ SubSeq(masked, 3, 5) = "..."
                  /\ SubSeq(masked, 6, 7) = SubSeq(value, Len(value) - 1, Len(value))
            /\ value = "secret123" => masked = "se...23"

\* C22 witness: "secret123" has been masked to "se...23".
C22_Witness ==
    /\ helper.fn = "mask_sensitive_value"
    /\ helper.value = "secret123"
    /\ helper.masked = "se...23"

\* C23: when validation fails in prod-local, the command reports the message
\* and exits with code 1 without ever running the Maven build, the Postgres
\* start or the java -jar launch, and without an environment mapping.
C23_Theorem ==
    LET secret == Get(environ, "JWT_SECRET")
        failure == IF secret.isNone \/ secret.str = "" THEN ERR_REQUIRED
                   ELSE IF secret.str = DEV_DEFAULT_JWT_SECRET THEN ERR_DEV_DEFAULT
                   ELSE IF Len(secret.str) < 32 THEN ERR_TOO_SHORT
                   ELSE NoError
    IN  (cli.cmd = "prod-local" /\ failure # NoError) =>
            /\ cli.exited /\ cli.code = 1
            /\ cli.message = <<"Configuration Error:", failure>>
            /\ cli.steps = <<>>
            /\ ~cli.built /\ cli.env = EmptyDict

\* C23 witness: prod-local --https has exited with code 1 on a secret that is
\* too short, with no step run.
C23_Witness ==
    /\ cli.cmd = "prod-local" /\ "--https" \in cli.options
    /\ Get(environ, "JWT_SECRET") = Some(Repeat("a", 31))
    /\ cli.exited /\ cli.code = 1
    /\ cli.message = <<"Configuration Error:", ERR_TOO_SHORT>>
    /\ cli.steps = <<>>

\* C24 as stated: for every combination of the four reports being missing,
\* unparseable, empty or holding data, main() records a row for each of the
\* four metrics and returns 0.
C24_AsStated ==
    metrics.called =>
        /\ metrics.outcome.kind = "returned"
        /\ metrics.outcome.code = 0
        /\ Len(metrics.outcome.rows) = 4
        /\ \A i \in 1..4 : metrics.outcome.rows[i].metric = Metrics[i]

\* C25 as stated: whenever --fast is given to the test command, neither
\* mutation testing nor the OWASP dependency check nor API fuzzing is run,
\* whatever the other options.
C25_AsStated ==
    (cli.cmd = "test" /\ "--fast" \in cli.options) =>
        \A i \in DOMAIN cli.steps :
            cli.steps[i] \notin {STEP_MVN_PITEST, STEP_MVN_DEPENDENCY_CHECK, STEP_API_FUZZING}

\* C26: with no extras, every mapping build() returns holds the four computed
\* keys with the builder's values, whatever the ambient environment holds for
\* them: both cookie flags and REQUIRE_SSL are "true" or "false" as the
\* builder's booleans say, the two cookie flags are equal, and
\* SPRING_PROFILES_ACTIVE is the builder's profile.
C26_Theorem ==
    \A b \in BuilderIds :
        (Returned(b) /\ NoExtras(b)) =>
            LET config == builders[b].config
                text(flag) == IF flag THEN "true" ELSE "false"
            IN  /\ {"APP_AUTH_COOKIE_SECURE", "COOKIE_SECURE", "SPRING_PROFILES_ACTIVE",
                    "REQUIRE_SSL"} \subseteq DOMAIN ret.env
                /\ ret.env["APP_AUTH_COOKIE_SECURE"] = text(config.cookie_secure)
                /\ ret.env["COOKIE_SECURE"] = text(config.cookie_secure)
                /\ ret.env["APP_AUTH_COOKIE_SECURE"] = ret.env["COOKIE_SECURE"]
                /\ ret.env["REQUIRE_SSL"] = text(config.require_ssl)
                /\ ret.env["SPRING_PROFILES_ACTIVE"] = config.spring_profile

\* C26 witness: a build without extras returned a mapping while the ambient
\* environment holds another value for each of the four computed keys.
C26_Witness ==
    \E b \in BuilderIds :
        /\ Returned(b) /\ NoExtras(b)
        /\ ComputedKeys \subseteq DOMAIN environ
        /\ \A k \in ComputedKeys : ret.env[k] # environ[k]
        /\ environ["APP_AUTH_COOKIE_SECURE"] # environ["COOKIE_SECURE"]

\* C27: after construction no call changes a builder's class, database,
\* profile, cookie_secure or csp_relaxed; the profile is "dev" exactly for Dev
\* on Postgres, "prod" exactly for ProdLocal and "default" otherwise;
\* with_https changes only require_ssl and with_postgres_credentials only the
\* three connection fields.
C27_Theorem ==
    [][\A b \in BuilderIds :
        LET old == builders[b]
            new == builders'[b]
        IN  /\ new.cls # "none" =>
                  /\ new.config.spring_profile = "dev" <=>
                        (new.cls = DevEnvironment /\ new.config.database = "postgres")
                  /\ new.config.spring_profile = "prod" <=> new.cls = ProdLocalEnvironment
                  /\ new.config.spring_profile \in {"dev", "prod", "default"}
            /\ old.cls # "none" =>
                  /\ new.cls = old.cls
                  /\ new.config.database = old.config.database
                  /\ new.config.spring_profile = old.config.spring_profile
                  /\ new.config.cookie_secure = old.config.cookie_secure
                  /\ new.config.csp_relaxed = old.config.csp_relaxed
            /\ with_https(b) =>
                  new.config = [old.config EXCEPT !.require_ssl = new.config.require_ssl]
            /\ (\E url \in UrlArgs, username \in UsernameArgs, password \in PasswordArgs :
                    with_postgres_credentials(b, url, username, password)) =>
                  new.config = [old.config EXCEPT !.postgres_url = new.config.postgres_url,
                                                  !.postgres_username = new.config.postgres_username,
                                                  !.postgres_password = new.config.postgres_password]]_vars

\* C27 witness: a Dev builder on H2 has been given credentials and built, next
\* to a ProdLocal builder on which with_https() has been called.
C27_Witness ==
    /\ IsDev("b1") /\ builders["b1"].config.database = H2
    /\ suppliedCredentials["b1"].called
    /\ builders["b1"].config.postgres_username = "myuser"
    /\ Returned("b1")
    /\ IsProdLocal("b2") /\ httpsCalled["b2"] /\ builders["b2"].config.require_ssl

\* C28: ci-local runs mvn clean verify, the metrics script and API fuzzing in
\* that order; a failed build ends the command with code 1 before the other
\* two; after a successful build API fuzzing runs exactly when --fast is not
\* given, and the exit code is 0 exactly when every recorded step returned 0.
C28_Theorem ==
    cli.cmd = "ci-local" =>
        LET fast == "--fast" \in cli.options
            verify == IF fast
                      THEN "mvn clean verify -DskipPitest=true -Ddependency-check.skip=true"
                      ELSE "mvn clean verify"
            order == IF fast THEN <<verify, STEP_METRICS>>
                     ELSE <<verify, STEP_METRICS, STEP_API_FUZZING>>
            failedBuild == cli.results # <<>> /\ cli.results[1].rc # 0
        IN  /\ Len(cli.steps) <= Len(order)
            /\ cli.steps = SubSeq(order, 1, Len(cli.steps))
            /\ cli.results # <<>> => cli.results[1].name = "Build & Verify"
            /\ failedBuild => (cli.exited /\ cli.code = 1 /\ cli.steps = <<verify>>)
            /\ (cli.exited /\ ~failedBuild) => cli.steps = order
            /\ cli.exited => (cli.code = 0 <=> \A i \in DOMAIN cli.results : cli.results[i].rc = 0)

\* C28 witness: ci-local without --fast has exited with code 1 right after a
\* failed mvn clean verify.
C28_Witness ==
    /\ cli.cmd = "ci-local" /\ "--fast" \notin cli.options
    /\ cli.exited /\ cli.code = 1
    /\ cli.steps = <<"mvn clean verify">>
    /\ cli.results = <<[name |-> "Build & Verify", rc |-> 2]>>

\* C29: ProdLocal validation succeeds exactly when is_jwt_secret_valid holds
\* of the same secret, and a failure is the first that applies of: missing
\* (None or empty), dev default, too short.
C29_Theorem ==
    helper.fn = "validate" =>
        LET secret == helper.secret
        IN  /\ helper.error = NoError <=> is_jwt_secret_valid(secret)
            /\ helper.error \in {NoError, ERR_REQUIRED, ERR_DEV_DEFAULT, ERR_TOO_SHORT}
            /\ helper.error = ERR_REQUIRED <=> (secret.isNone \/ secret.str = "")
            /\ helper.error = ERR_DEV_DEFAULT <=>
                  (~secret.isNone /\ secret.str = DEV_DEFAULT_JWT_SECRET)
            /\ helper.error = ERR_TOO_SHORT <=>
                  (~secret.isNone /\ secret.str # "" /\ secret.str # DEV_DEFAULT_JWT_SECRET
                      /\ Len(secret.str) < 32)

\* C29 witness: validation reported the empty secret as missing, and the
\* predicate rejects it too.
C29_Witness ==
    /\ helper.fn = "validate"
    /\ helper.secret = Some("")
    /\ helper.error = ERR_REQUIRED
    /\ ~is_jwt_secret_valid(helper.secret)
====
